---------------------------- MODULE Spec2Model ----------------------------
(***************************************************************************)
(* A model of dashboard/dashboard.py: the Bank Al-Maghrib report           *)
(* acquisition (get_bam_report_data with its three nested helpers), the    *)
(* app-store aggregation (get_app_store_data), the process-wide            *)
(* st.cache_data cache in front of both, the per-session st.session_state  *)
(* and the script body that renders the two tabs.                          *)
(***************************************************************************)
EXTENDS Integers, Sequences, FiniteSets, TLC

(***************************************************************************)
(* Bounds of the model.                                                    *)
(***************************************************************************)
\* longest number token ([\d,]+) a search result carries
MaxTokenLen == 2
\* longest app registry drawn for the aggregation alone
MaxApps == 2
\* browser sessions open on the one server process
NumSessions == 2

(***************************************************************************)
(* Program constants.                                                      *)
(***************************************************************************)
\* details.get('description', '')[:200]
DescLimit == 200

(***************************************************************************)
(* Number tokens and clean_value.                                          *)
(***************************************************************************)
DigitChars == <<"0", "1", "2", "3", "4", "5", "6", "7", "8", "9">>

IsDigit(c) == \E i \in 1..10 : DigitChars[i] = c

DigitVal(c) == (CHOOSE i \in 1..10 : DigitChars[i] = c) - 1

\* the characters number tokens are drawn from
TokChars == {"0", "2", ","}

SeqsUpTo(S, n) == UNION {[1..k -> S] : k \in 1..n}

\* what ([\d,]+) can capture, up to MaxTokenLen characters
Tokens == SeqsUpTo(TokChars, MaxTokenLen)

\* what (\d+) can capture
DigitTokens == {t \in Tokens : \A i \in 1..Len(t) : IsDigit(t[i])}

\* val_str.replace(' ', '').replace(',', '.')
Replaced(val_str) ==
    LET noSpace == SelectSeq(val_str, LAMBDA c : c # " ")
    IN  [i \in 1..Len(noSpace) |-> IF noSpace[i] = "," THEN "." ELSE noSpace[i]]

\* float(s) accepts digits with at most one point and at least one digit
FloatOk(s) ==
    /\ \A i \in 1..Len(s) : IsDigit(s[i]) \/ s[i] = "."
    /\ Cardinality({i \in 1..Len(s) : s[i] = "."}) <= 1
    /\ \E i \in 1..Len(s) : IsDigit(s[i])

RECURSIVE Pow10(_)
Pow10(k) == IF k = 0 THEN 1 ELSE 10 * Pow10(k - 1)

RECURSIVE DigitsNum(_)
DigitsNum(s) ==
    IF Len(s) = 0 THEN 0
    ELSE 10 * DigitsNum(SubSeq(s, 1, Len(s) - 1)) + DigitVal(s[Len(s)])

\* float(s) for an accepted s: the number n / 10^k as <<n, k>>
FloatOf(s) ==
    LET digits == SelectSeq(s, IsDigit)
        points == {i \in 1..Len(s) : s[i] = "."}
        k      == IF points = {} THEN 0 ELSE Len(s) - (CHOOSE i \in points : TRUE)
    IN  <<DigitsNum(digits), k>>

\* clean_value: the float, or the ValueError float() raises
clean_value(val_str) ==
    LET s == Replaced(val_str)
    IN  IF FloatOk(s) THEN [ok |-> TRUE, v |-> FloatOf(s)]
        ELSE [ok |-> FALSE, v |-> <<0, 0>>]

\* p / q rounded to the nearest integer, ties to even (q > 0)
RoundDiv(p, q) ==
    LET f == p \div q
        r == p % q
    IN  IF 2 * r < q THEN f
        ELSE IF 2 * r > q THEN f + 1
        ELSE IF f % 2 = 0 THEN f ELSE f + 1

\* the number of tenths f"{v:.1f}" prints
Tenths(v) == RoundDiv(v[1] * 10, Pow10(v[2]))

\* round(((a / b) - 1) * 100, 1), in tenths of a percent (b # 0)
GrowthTenths(a, b) ==
    RoundDiv(1000 * (a[1] * Pow10(b[2]) - b[1] * Pow10(a[2])), b[1] * Pow10(a[2]))

\* a float as str() prints it: trailing zeros of the fraction dropped
RECURSIVE Canon(_)
Canon(v) ==
    IF v[2] > 1 /\ v[1] % 10 = 0 THEN Canon(<<v[1] \div 10, v[2] - 1>>)
    ELSE IF v[2] = 0 THEN <<v[1] * 10, 1>>
    ELSE v

(***************************************************************************)
(* Table cells are display strings.  A literal is <<text, 0, 0>>; a        *)
(* formatted number is <<format, n, k>> for the number n / 10^k.           *)
(***************************************************************************)
Lit(s) == <<s, 0, 0>>

\* f"{v:.1f} million"
Million(v) == <<"%.1f million", Tenths(v), 1>>

\* f"MAD {v:.1f} billion"
MadBillion(v) == <<"MAD %.1f billion", Tenths(v), 1>>

\* f"+{v}%"
PlusPct(v) == <<"+%s%%", Canon(v)[1], Canon(v)[2]>>

Columns == {"Category", "Metric", "2022", "2023", "Growth (2022-2023)"}

Row(cat, metric, y22, y23, growth) ==
    ("Category" :> cat) @@ ("Metric" :> metric) @@ ("2022" :> y22)
        @@ ("2023" :> y23) @@ ("Growth (2022-2023)" :> growth)

\* DataFrame.columns of a table built from a list of row dicts
ColumnsOf(table) == IF Len(table) = 0 THEN {} ELSE DOMAIN table[1]

(***************************************************************************)
(* Report text.  A text is a sequence of pieces: whitespace, prose that no *)
(* pattern matches, or a phrase one of the three patterns matches, with    *)
(* the number tokens its groups capture.  The empty string is <<>>.        *)
(***************************************************************************)
Piece(kind, groups) == [k |-> kind, g |-> groups]

Space   == Piece("space", <<>>)
Newline == Piece("newline", <<>>)
Prose   == Piece("prose", <<>>)

IsWhitespace(p) == p.k \in {"space", "newline"}

\* re.sub(r'\s+', ' ', page_text): every run of whitespace becomes one space
RECURSIVE CollapseWhitespace(_)
CollapseWhitespace(t) ==
    IF Len(t) = 0 THEN <<>>
    ELSE IF IsWhitespace(t[1])
         THEN IF Len(t) > 1 /\ IsWhitespace(t[2])
              THEN CollapseWhitespace(Tail(t))
              ELSE <<Space>> \o CollapseWhitespace(Tail(t))
         ELSE <<t[1]>> \o CollapseWhitespace(Tail(t))

\* no match of re.search
NoMatch == <<>>

\* re.search(pattern, text): the groups of the first matching phrase
re_search(kind, text) ==
    LET hits == {i \in 1..Len(text) : text[i].k = kind}
    IN  IF hits = {} THEN NoMatch
        ELSE text[CHOOSE i \in hits : \A j \in hits : i <= j].g

(***************************************************************************)
(* parse_payment_data.  The result is the rows of the returned frame, or   *)
(* the exception that leaves the function.                                 *)
(***************************************************************************)
Parsed(rows) == [exc |-> "none", rows |-> rows]
Raised(e)    == [exc |-> e, rows |-> <<>>]

AllOk(tokens) == \A i \in 1..Len(tokens) : clean_value(tokens[i]).ok

\* lines 76-82: the POS rule
pos_rule(text) ==
    LET num == re_search("pos_num", text)
        val == re_search("pos_val", text)
    IN  IF num # NoMatch /\ val # NoMatch
        THEN IF ~AllOk(val) THEN Raised("ValueError")
             ELSE LET val_2023 == clean_value(val[1]).v
                      val_2022 == clean_value(val[2]).v
                  IN  IF val_2022[1] = 0 THEN Raised("ZeroDivisionError")
                      ELSE IF ~AllOk(num) THEN Raised("ValueError")
                      ELSE Parsed(<<
                          Row(Lit("POS Payments"), Lit("Number of Transactions"),
                              Million(clean_value(num[2]).v),
                              Million(clean_value(num[3]).v),
                              PlusPct(clean_value(num[1]).v)),
                          Row(Lit(""), Lit("Value of Transactions"),
                              MadBillion(val_2022), MadBillion(val_2023),
                              PlusPct(<<GrowthTenths(val_2023, val_2022), 1>>)) >>)
        ELSE Parsed(<<>>)

\* lines 84-88: the mobile-wallet rule
mobile_rule(text) ==
    LET mob == re_search("mobile", text)
    IN  IF mob # NoMatch
        THEN IF ~AllOk(mob) THEN Raised("ValueError")
             ELSE LET growth == PlusPct(clean_value(mob[5]).v)
                  IN  Parsed(<<
                          Row(Lit("Mobile Payments (M-Wallet)"),
                              Lit("Number of Transactions"),
                              Million(clean_value(mob[2]).v),
                              Million(clean_value(mob[1]).v), growth),
                          Row(Lit(""), Lit("Value of Transactions"),
                              MadBillion(clean_value(mob[4]).v),
                              MadBillion(clean_value(mob[3]).v), growth) >>)
        ELSE Parsed(<<>>)

\* lines 71-90
parse_payment_data(text) ==
    LET pos == pos_rule(text)
    IN  IF pos.exc # "none" THEN pos
        ELSE LET mob == mobile_rule(text)
             IN  IF mob.exc # "none" THEN mob
                 ELSE Parsed(pos.rows \o mob.rows)

(***************************************************************************)
(* get_bam_report_data: the constants of lines 20-33.                      *)
(***************************************************************************)
\* lines 20-31; the Metric of the third row is written without its leading arrow glyph
fallback_df == <<
    Row(Lit("POS Payments"), Lit("Number of Transactions"),
        Lit("106.4 million"), Lit("131.3 million"), Lit("+23%")),
    Row(Lit(""), Lit("Value of Transactions"),
        Lit("MAD 39.2 billion"), Lit("MAD 46.9 billion"), Lit("+19.9%")),
    Row(Lit(""), Lit("of which Contactless"),
        Lit("55.4 million (52% of POS)"), Lit("75.4 million (57% of POS)"),
        Lit("+36.1% (in transaction count)")),
    Row(Lit("eCommerce Payments"), Lit("Number of Transactions"),
        Lit("26.8 million"), Lit("32.1 million"), Lit("+20%")),
    Row(Lit(""), Lit("Value of Transactions"),
        Lit("MAD 8.6 billion"), Lit("MAD 9.9 billion"), Lit("+15%")),
    Row(Lit("Mobile Payments (M-Wallet)"), Lit("Number of Transactions"),
        Lit("7.9 million"), Lit("9.7 million"), Lit("+23%")),
    Row(Lit(""), Lit("Value of Transactions"),
        Lit("MAD 1.7 billion"), Lit("MAD 2.1 billion"), Lit("+23%")),
    Row(Lit("Card-based Cash Withdrawals"), Lit("Number of Transactions"),
        Lit("360 million"), Lit("402 million"), Lit("+12%")),
    Row(Lit(""), Lit("Value of Transactions"),
        Lit("MAD 351 billion"), Lit("MAD 399 billion"), Lit("+13%")) >>

\* A URL is a sequence of parts; None, and a key absent from
\* st.session_state, is the empty sequence.
None == <<>>

\* line 33
page_url == <<"https://www.bkam.ma", "/", "fr/Publications-et-recherche/Rapport-annuel">>

\* line 46: scheme and netloc of base_url
DomainOf(base_url) == <<base_url[1]>>

IsAbsolute(path) == path[1] \in {"https://www.bkam.ma", "https://cdn.bkam.ma"}

\* urllib.parse.urljoin(domain, pdf_path)
urljoin(domain, pdf_path) ==
    IF IsAbsolute(pdf_path) THEN pdf_path
    ELSE IF pdf_path[1] = "/" THEN domain \o pdf_path
    ELSE domain \o <<"/">> \o pdf_path

\* line 43: value=lambda v: v and '2023' in v
Has2023(v) == v # None /\ \E i \in 1..Len(v) : v[i] = "2023"

(***************************************************************************)
(* What the landing page can answer.                                       *)
(***************************************************************************)
PageError == [status |-> "error", select |-> FALSE, options |-> <<>>]
PageOk(select, options) == [status |-> "ok", select |-> select, options |-> options]

Opt2022  == <<"/", "Media", "2022", "ra.pdf">>
Opt2023a == <<"/", "Media", "2023", "ra.pdf">>
Opt2023b == <<"https://cdn.bkam.ma", "/", "2023", "ra-fr.pdf">>

Pages == { PageError,
           PageOk(FALSE, <<>>),
           PageOk(TRUE, <<>>),
           PageOk(TRUE, <<None, Opt2022>>),
           PageOk(TRUE, <<Opt2022, Opt2023a, Opt2023b>>) }

\* lines 35-52
get_latest_report_url(base_url, response) ==
    IF response.status = "error" THEN None
    ELSE IF ~response.select THEN None
    ELSE LET options == SelectSeq(response.options, Has2023)
         IN  IF options # <<>>
             THEN urljoin(DomainOf(base_url), options[1])
             ELSE None

(***************************************************************************)
(* What the document download can answer: an error, or the page texts of   *)
(* the PDF (an empty page text is <<>>).                                   *)
(***************************************************************************)
DocError == [status |-> "error", pages |-> <<>>]
DocOk(pages) == [status |-> "ok", pages |-> pages]

PosNum(a, b, c) == Piece("pos_num", <<a, b, c>>)
PosVal(a, b)    == Piece("pos_val", <<a, b>>)
Mobile(a, b, c, d, e) == Piece("mobile", <<a, b, c, d, e>>)

T2  == <<"2">>
T20 == <<"2", "0">>
T02 == <<"0", ",", "2">>
T0  == <<"0">>

Docs == { DocError,
          DocOk(<<>>),
          DocOk(<<<<>>, <<>>>>),
          DocOk(<<<<Newline, Newline>>>>),
          DocOk(<<<<Prose, Newline, Space, PosVal(T20, T2)>>>>),
          DocOk(<<<<PosNum(T2, T2, T20), Space>>, <<>>,
                  <<Newline, PosVal(T20, T2), Prose, Mobile(T20, T2, T02, T02, T2)>>>>),
          DocOk(<<<<PosNum(T2, T2, T20), PosVal(T20, T0)>>>>) }

RECURSIVE JoinPages(_)
JoinPages(pages) ==
    IF Len(pages) = 0 THEN <<>>
    ELSE (IF pages[1] # <<>> THEN CollapseWhitespace(pages[1]) ELSE <<>>)
            \o JoinPages(Tail(pages))

\* lines 54-69: the text, or None after st.error
extract_text_from_pdf(response) ==
    IF response.status = "error"
    THEN [raised |-> TRUE, text |-> None]
    ELSE [raised |-> FALSE, text |-> JoinPages(response.pages)]

(***************************************************************************)
(* get_app_store_data: registries, store answers and the rows built from   *)
(* them.  A registry is the dict's keys in insertion order (the app id     *)
(* only keys the query, whose answer the environment chooses).             *)
(***************************************************************************)
Wallets == {"Chaabi Pay", "Cash Plus", "JIBI"}

\* the registries a run of the aggregation alone is given
Registries ==
    {r \in UNION {[1..k -> Wallets] : k \in 0..MaxApps} :
        \A i, j \in 1..Len(r) : r[i] = r[j] => i = j}

Some(x) == <<x>>

Min(a, b) == IF a <= b THEN a ELSE b

\* a text of `len` characters cut by [:200]
Truncate(description) == <<description[1], Min(description[2], DescLimit)>>

\* app(app_id, lang='en', country='ma'): an exception, or the details dict
AndroidRaise == [status |-> "error", installs |-> "", score |-> None,
                 ratings |-> None, updated |-> None, description |-> <<"", 0>>]
AndroidDetails(installs, score, ratings, updated, description) ==
    [status |-> "ok", installs |-> installs, score |-> score, ratings |-> ratings,
     updated |-> updated, description |-> description]

AndroidAnswers ==
    { AndroidRaise,
      AndroidDetails("1,000,000+", Some(41), Some(5300), Some(19700), <<"long", 450>>),
      AndroidDetails("10,000+", None, None, None, <<"short", 80>>) }

\* datetime.fromtimestamp(ts).strftime('%Y-%m-%d'), ts in days since the epoch
DateOf(ts) == IF ts = 19700 THEN "2023-12-09" ELSE "1970-01-01"

\* lines 131-137: the row, or the exception the try block catches
android_entry(name, details) ==
    IF details.status = "error" THEN [ok |-> FALSE, row |-> <<>>]
    ELSE IF details.updated = None THEN [ok |-> FALSE, row |-> <<>>]
    ELSE [ok |-> TRUE,
          row |-> [Wallet |-> name, Platform |-> "Android",
                   Installs |-> details.installs, Score |-> details.score,
                   Ratings |-> details.ratings,
                   LastUpdated |-> DateOf(details.updated[1]),
                   Description |-> Truncate(details.description)]]

\* requests.get(url, timeout=10) and r.json(): an exception, or the results list
IosRaise == [status |-> "error", results |-> <<>>]
IosJson(results) == [status |-> "ok", results |-> results]
IosResult(score, ratings, released, description) ==
    [averageUserRating |-> score, userRatingCount |-> ratings,
     currentVersionReleaseDate |-> released, description |-> description]

IosAnswers ==
    { IosRaise,
      IosJson(<<>>),
      IosJson(<<IosResult(Some(47), Some(1200), <<"2024-05-01", "08:00:00Z">>,
                          <<"long", 450>>)>>) }

\* lines 146-154
ios_entry(name, answer) ==
    IF answer.status = "error" THEN [ok |-> FALSE, row |-> <<>>]
    ELSE IF Len(answer.results) = 0 THEN [ok |-> FALSE, row |-> <<>>]
    ELSE LET d == answer.results[1]
         IN  [ok |-> TRUE,
              row |-> [Wallet |-> name, Platform |-> "iOS", Installs |-> "N/A",
                       Score |-> d.averageUserRating, Ratings |-> d.userRatingCount,
                       LastUpdated |-> d.currentVersionReleaseDate[1],
                       Description |-> Truncate(d.description)]]

(***************************************************************************)
(* State.                                                                  *)
(***************************************************************************)
VARIABLES
    cache,            \* st.cache_data: function name -> entry
    invalidated,      \* function name -> cleared by a refresh and not stored since
    session_state,    \* session -> st.session_state.bam_source_url (None: absent)
    pc,               \* session -> where its script run stands
    screen,           \* session -> what tab 1 shows
    cyc,              \* the latest acquisition cycle of get_bam_report_data
    agg,              \* the latest run of get_app_store_data
    wallet_apps_android,
    wallet_apps_ios

vars == <<cache, invalidated, session_state, pc, screen, cyc, agg,
          wallet_apps_android, wallet_apps_ios>>

Sessions == 1..NumSessions

Funcs == {"bam", "apps"}

NoEntry == [has |-> FALSE, value |-> <<>>]
Entry(value) == [has |-> TRUE, value |-> value]

Blank == [table |-> "none", source |-> None]

\* log: what the cycle did, in order ("error" is the call of st.error);
\* extracted: how extract_text_from_pdf ended; nrows: len(parsed_df);
\* exc: the exception that left the function; result: the table returned
NoCycle == [owner |-> 0, phase |-> "START", latest_pdf_url |-> None,
            extracted |-> "none", report_text |-> <<>>, nrows |-> 0,
            exc |-> "none", result |-> <<>>, log |-> <<>>]

\* fetched_*: per registry entry, whether its try block ran to its end
NoAgg == [owner |-> 0, phase |-> "idle", i |-> 1, data_android |-> <<>>,
          data_ios |-> <<>>, fetched_android |-> <<>>, fetched_ios |-> <<>>,
          result |-> <<>>]

CycleRunning == cyc.phase \in {"LOCATING", "DOWNLOADING", "PARSING"}
AggRunning   == agg.phase \in {"android", "ios"}

InitCommon ==
    /\ cache = [f \in Funcs |-> NoEntry]
    /\ invalidated = [f \in Funcs |-> FALSE]
    /\ screen = [s \in Sessions |-> Blank]

Init ==
    /\ InitCommon
    /\ session_state = [s \in Sessions |-> None]
    /\ pc = [s \in Sessions |-> "closed"]
    /\ cyc = NoCycle
    /\ agg = NoAgg
    /\ wallet_apps_android = <<"Chaabi Pay">>
    /\ wallet_apps_ios = <<"Chaabi Pay">>

\* The records cyc and agg describe the latest call of each function for the
\* properties below; the program keeps nothing of a call once the script run
\* that made it is over, and the record is dropped then.
Forget(record, s, none) == IF record.owner = s THEN none ELSE record

(***************************************************************************)
(* The script body, lines 162-223: each rerun starts at the top.           *)
(***************************************************************************)
\* a script run starts: the page is opened, or a widget of tab 2 is used
Run(s) ==
    /\ pc[s] \in {"closed", "idle"}
    /\ pc' = [pc EXCEPT ![s] = "tab1"]
    /\ screen' = [screen EXCEPT ![s] = Blank]
    /\ agg' = Forget(agg, s, NoAgg)
    /\ cyc' = Forget(cyc, s, NoCycle)
    /\ UNCHANGED <<cache, invalidated, session_state,
                   wallet_apps_android, wallet_apps_ios>>

\* Refresh with a clear() that reaches the report's entries only
Refresh_KeepsApps(s) ==
    /\ pc[s] = "idle"
    /\ cache' = [cache EXCEPT !["bam"] = NoEntry]
    /\ invalidated' = [f \in Funcs |-> TRUE]
    /\ pc' = [pc EXCEPT ![s] = "tab1"]
    /\ screen' = [screen EXCEPT ![s] = Blank]
    /\ agg' = Forget(agg, s, NoAgg)
    /\ cyc' = Forget(cyc, s, NoCycle)
    /\ UNCHANGED <<session_state, wallet_apps_android, wallet_apps_ios>>

\* lines 165-167: st.cache_data.clear() and st.rerun()
Refresh(s) ==
    /\ pc[s] = "idle"
    /\ cache' = [f \in Funcs |-> NoEntry]
    /\ invalidated' = [f \in Funcs |-> TRUE]
    /\ pc' = [pc EXCEPT ![s] = "tab1"]
    /\ screen' = [screen EXCEPT ![s] = Blank]
    /\ agg' = Forget(agg, s, NoAgg)
    /\ cyc' = Forget(cyc, s, NoCycle)
    /\ UNCHANGED <<session_state, wallet_apps_android, wallet_apps_ios>>

\* lines 14 and 123, ttl=86400: an entry's lifetime ends, at a moment the
\* model leaves open, and the entry is dropped
Expire(f) ==
    /\ cache[f].has
    /\ cache' = [cache EXCEPT ![f] = NoEntry]
    /\ UNCHANGED <<invalidated, session_state, pc, screen, cyc, agg,
                   wallet_apps_android, wallet_apps_ios>>

\* lines 174-179: tab 1, with the caption when the session has a source url
render_tab1(bam_df, bam_source_url) ==
    IF bam_df # <<>>
    THEN [table |-> "shown", source |-> bam_source_url]
    ELSE [table |-> "warning", source |-> None]

(***************************************************************************)
(* get_bam_report_data behind st.cache_data, lines 14-15 and 92-106.       *)
(***************************************************************************)
\* line 173 on a cached entry: the body is not run; tab 1 is drawn
BamHit(s) ==
    /\ pc[s] = "tab1"
    /\ cache["bam"].has
    /\ screen' = [screen EXCEPT
                    ![s] = render_tab1(cache["bam"].value, session_state[s])]
    /\ pc' = [pc EXCEPT ![s] = "tab2"]
    /\ UNCHANGED <<cache, invalidated, session_state, cyc, agg,
                   wallet_apps_android, wallet_apps_ios>>

\* line 173 on no entry: the body starts, one computation at a time
BamMiss(s) ==
    /\ pc[s] = "tab1"
    /\ ~cache["bam"].has
    /\ ~CycleRunning
    /\ cyc' = [NoCycle EXCEPT !.owner = s, !.phase = "LOCATING"]
    /\ pc' = [pc EXCEPT ![s] = "in_bam"]
    /\ UNCHANGED <<cache, invalidated, session_state, screen, agg,
                   wallet_apps_android, wallet_apps_ios>>

\* the function returns `table`: the cache stores it and tab 1 is drawn
ReturnTable(s, c, phase, table, bam_source_url) ==
    /\ cyc' = [c EXCEPT !.phase = phase, !.result = table]
    /\ cache' = [cache EXCEPT !["bam"] = Entry(table)]
    /\ invalidated' = [invalidated EXCEPT !["bam"] = FALSE]
    /\ session_state' = [session_state EXCEPT ![s] = bam_source_url]
    /\ screen' = [screen EXCEPT ![s] = render_tab1(table, bam_source_url)]
    /\ pc' = [pc EXCEPT ![s] = "tab2"]
    /\ UNCHANGED <<agg, wallet_apps_android, wallet_apps_ios>>

\* the fallback path returning the empty frame instead of the baseline
FallbackTable_Empty(c) == <<>>

\* line 106: what the fallback path returns
FallbackTable(c) == fallback_df

\* lines 104-105: the source reference after the fallback path
FallbackSource(bam_source_url) ==
    IF bam_source_url = None THEN page_url ELSE bam_source_url

\* lines 104-106
FallbackReturn(s, c) ==
    ReturnTable(s, c, "FALLBACK", FallbackTable(c), FallbackSource(session_state[s]))

\* lines 93-95
Locate(s) ==
    /\ cyc.owner = s
    /\ cyc.phase = "LOCATING"
    /\ \E page \in Pages :
        LET latest_pdf_url == get_latest_report_url(page_url, page)
            c == [cyc EXCEPT !.latest_pdf_url = latest_pdf_url,
                             !.log = Append(@, "locate")]
        IN  IF latest_pdf_url # None
            THEN /\ session_state' = [session_state EXCEPT ![s] = latest_pdf_url]
                 /\ cyc' = [c EXCEPT !.phase = "DOWNLOADING"]
                 /\ UNCHANGED <<cache, invalidated, pc, screen, agg,
                                wallet_apps_android, wallet_apps_ios>>
            ELSE FallbackReturn(s, c)

\* the extractor swallowing its exception as the locator does
download_log_Silent(r) == <<"download">>

\* lines 57-68: the download, and st.error when it or the decoding raises
download_log(r) == <<"download">> \o (IF r.raised THEN <<"error">> ELSE <<>>)

\* lines 96-97
Download(s) ==
    /\ cyc.owner = s
    /\ cyc.phase = "DOWNLOADING"
    /\ \E doc \in Docs :
        LET r == extract_text_from_pdf(doc)
            c == [cyc EXCEPT !.report_text = r.text,
                             !.extracted = IF r.raised THEN "raised"
                                           ELSE IF r.text = <<>> THEN "empty"
                                           ELSE "text",
                             !.log = @ \o download_log(r)]
        IN  IF r.text # <<>>
            THEN /\ cyc' = [c EXCEPT !.phase = "PARSING"]
                 /\ UNCHANGED <<cache, invalidated, session_state, pc, screen, agg,
                                wallet_apps_android, wallet_apps_ios>>
            ELSE FallbackReturn(s, c)

\* lines 98-101
Parse(s) ==
    /\ cyc.owner = s
    /\ cyc.phase = "PARSING"
    /\ LET parsed_df == parse_payment_data(cyc.report_text)
           c == [cyc EXCEPT !.exc = parsed_df.exc, !.nrows = Len(parsed_df.rows),
                            !.log = Append(@, "parse")]
       IN  IF parsed_df.exc # "none"
           THEN \* the exception leaves get_bam_report_data and ends the script run
                /\ cyc' = [c EXCEPT !.phase = "RAISED"]
                /\ pc' = [pc EXCEPT ![s] = "idle"]
                /\ screen' = [screen EXCEPT ![s] = [table |-> "exception",
                                                    source |-> None]]
                /\ UNCHANGED <<cache, invalidated, session_state, agg,
                               wallet_apps_android, wallet_apps_ios>>
           ELSE IF parsed_df.rows # <<>>
           THEN ReturnTable(s, c, "SUCCESS", parsed_df.rows, session_state[s])
           ELSE FallbackReturn(s, c)

(***************************************************************************)
(* get_app_store_data behind st.cache_data, lines 123-159.                 *)
(***************************************************************************)
\* the two frames concatenated the other way round
concat_IosFirst(df_android, df_ios) == df_ios \o df_android

\* line 159: pd.concat([df_android, df_ios], ignore_index=True)
concat(df_android, df_ios) == df_android \o df_ios

\* the loops' exits: after the last Android app the iOS loop, then the return
LoopExit(a) ==
    LET a1 == IF a.phase = "android" /\ a.i > Len(wallet_apps_android)
              THEN [a EXCEPT !.phase = "ios", !.i = 1] ELSE a
    IN  IF a1.phase = "ios" /\ a1.i > Len(wallet_apps_ios)
        THEN [a1 EXCEPT !.phase = "done",
                        !.result = concat(a1.data_android, a1.data_ios)]
        ELSE a1

\* after an iteration: the next one, or the return, tab 2 and the script's end
Advance(s, a) ==
    LET a2 == LoopExit(a)
    IN  /\ agg' = a2
        /\ IF a2.phase = "done"
           THEN /\ cache' = [cache EXCEPT !["apps"] = Entry(a2.result)]
                /\ invalidated' = [invalidated EXCEPT !["apps"] = FALSE]
                /\ pc' = [pc EXCEPT ![s] = "idle"]
                /\ cyc' = Forget(cyc, s, NoCycle)
           ELSE /\ pc' = [pc EXCEPT ![s] = "in_apps"]
                /\ UNCHANGED <<cache, invalidated, cyc>>
        /\ UNCHANGED <<session_state, screen, wallet_apps_android,
                       wallet_apps_ios>>

\* line 183 on a cached entry: tab 2 is drawn and the script run ends
AppsHit(s) ==
    /\ pc[s] = "tab2"
    /\ cache["apps"].has
    /\ pc' = [pc EXCEPT ![s] = "idle"]
    /\ cyc' = Forget(cyc, s, NoCycle)
    /\ UNCHANGED <<cache, invalidated, session_state, screen, agg,
                   wallet_apps_android, wallet_apps_ios>>

\* line 183 on no entry
AppsMiss(s) ==
    /\ pc[s] = "tab2"
    /\ ~cache["apps"].has
    /\ ~AggRunning
    /\ Advance(s, [NoAgg EXCEPT !.owner = s, !.phase = "android"])

\* the Android loop appending a row of nulls where the query failed
AndroidApp_Placeholder(s) ==
    /\ agg.owner = s
    /\ agg.phase = "android"
    /\ \E details \in AndroidAnswers :
        LET e == android_entry(wallet_apps_android[agg.i], details)
            placeholder == [Wallet |-> wallet_apps_android[agg.i],
                            Platform |-> "Android", Installs |-> "",
                            Score |-> None, Ratings |-> None, LastUpdated |-> "",
                            Description |-> <<"", 0>>]
        IN  Advance(s, [agg EXCEPT
                !.data_android = Append(@, IF e.ok THEN e.row ELSE placeholder),
                !.fetched_android = Append(@, e.ok),
                !.i = @ + 1])

\* lines 129-139: one iteration of the Android loop
AndroidApp(s) ==
    /\ agg.owner = s
    /\ agg.phase = "android"
    /\ \E details \in AndroidAnswers :
        LET e == android_entry(wallet_apps_android[agg.i], details)
        IN  Advance(s, [agg EXCEPT
                !.data_android = IF e.ok THEN Append(@, e.row) ELSE @,
                !.fetched_android = Append(@, e.ok),
                !.i = @ + 1])

\* lines 144-156: one iteration of the iOS loop
IosApp(s) ==
    /\ agg.owner = s
    /\ agg.phase = "ios"
    /\ \E answer \in IosAnswers :
        LET e == ios_entry(wallet_apps_ios[agg.i], answer)
        IN  Advance(s, [agg EXCEPT
                !.data_ios = IF e.ok THEN Append(@, e.row) ELSE @,
                !.fetched_ios = Append(@, e.ok),
                !.i = @ + 1])

Next ==
    \/ \E f \in Funcs : Expire(f)
    \/ \E s \in Sessions :
        \/ Run(s)
        \/ Refresh(s)
        \/ BamHit(s)
        \/ BamMiss(s)
        \/ Locate(s)
        \/ Download(s)
        \/ Parse(s)
        \/ AppsHit(s)
        \/ AppsMiss(s)
        \/ AndroidApp(s)
        \/ IosApp(s)

Spec == Init /\ [][Next]_vars

(***************************************************************************)
(* parse_payment_data alone: the cycle stands before line 98 with a text   *)
(* drawn from the phrases the three patterns can match.                    *)
(***************************************************************************)
OneCharTokens == {t \in Tokens : Len(t) = 1}

NumPhrases == {<<>>} \cup {<<PosNum(t, t, t)>> : t \in Tokens}
ValPhrases == {<<>>} \cup {<<PosVal(a, b)>> : a \in OneCharTokens, b \in Tokens}
MobPhrases == {<<>>} \cup
    {<<Mobile(t, t, t, t, d)>> : t \in Tokens, d \in OneCharTokens \cap DigitTokens}

DocUrl == urljoin(DomainOf(page_url), Opt2023a)

InitParse ==
    /\ InitCommon
    /\ session_state = [s \in Sessions |-> IF s = 1 THEN DocUrl ELSE None]
    /\ pc = [s \in Sessions |-> IF s = 1 THEN "in_bam" ELSE "closed"]
    /\ \E n \in NumPhrases, v \in ValPhrases, m \in MobPhrases :
        cyc = [NoCycle EXCEPT !.owner = 1, !.phase = "PARSING",
                              !.latest_pdf_url = DocUrl, !.extracted = "text",
                              !.report_text = <<Prose>> \o n \o v \o m,
                              !.log = <<"locate", "download">>]
    /\ agg = NoAgg
    /\ wallet_apps_android = <<"Chaabi Pay">>
    /\ wallet_apps_ios = <<"Chaabi Pay">>

NextParse == \E s \in Sessions : Parse(s)

SpecParse == InitParse /\ [][NextParse]_vars

(***************************************************************************)
(* get_app_store_data alone: a session stands before line 183 with no      *)
(* cached entry, the registries drawn from Registries.                     *)
(***************************************************************************)
InitApps ==
    /\ cache = [f \in Funcs |-> NoEntry]
    /\ invalidated = [f \in Funcs |-> FALSE]
    /\ session_state = [s \in Sessions |-> None]
    /\ screen = [s \in Sessions |->
                    IF s = 1 THEN render_tab1(fallback_df, None) ELSE Blank]
    /\ pc = [s \in Sessions |-> IF s = 1 THEN "tab2" ELSE "closed"]
    /\ cyc = NoCycle
    /\ agg = NoAgg
    /\ wallet_apps_android \in Registries
    /\ wallet_apps_ios \in Registries

NextApps == \E s \in Sessions : AppsMiss(s) \/ AndroidApp(s) \/ IosApp(s)

SpecApps == InitApps /\ [][NextApps]_vars

(***************************************************************************)
(* Properties.                                                             *)
(***************************************************************************)
Ended(c) == c.phase \in {"SUCCESS", "FALLBACK", "RAISED"}

InLog(c, e) == \E i \in 1..Len(c.log) : c.log[i] = e

LocatorFailed(c)   == InLog(c, "locate") /\ c.latest_pdf_url = None
ExtractorNoText(c) == c.extracted \in {"raised", "empty"}
ParserZeroRows(c)  == InLog(c, "parse") /\ c.exc = "none" /\ c.nrows = 0
ErrorReported(c)   == InLog(c, "error")

\* the cycle located a document and fell back without the parser having run
FellBackAtDownloading(c) ==
    c.phase = "FALLBACK" /\ c.latest_pdf_url # None /\ ~InLog(c, "parse")

(* C1: every acquisition cycle that ends in a failure mode (the locator    *)
(* returned no URL, the extractor returned no text, the parser returned    *)
(* zero rows) returns exactly the fixed baseline table, the same in every  *)
(* cycle, and that table has the five columns of a live-parsed table.      *)
C1_FallbackShape ==
    /\ (Ended(cyc) /\ (LocatorFailed(cyc) \/ ExtractorNoText(cyc) \/ ParserZeroRows(cyc)))
          => /\ cyc.phase = "FALLBACK"
             /\ cyc.result = fallback_df
             /\ ColumnsOf(cyc.result) = Columns
    /\ cyc.phase = "SUCCESS" => ColumnsOf(cyc.result) = ColumnsOf(fallback_df)

C1_Witness ==
    /\ cyc.phase = "FALLBACK"
    /\ ParserZeroRows(cyc)
    /\ cyc.result = fallback_df

(* C2: after every acquisition cycle, also one that follows earlier cycles *)
(* of the session: when the locator succeeded in this cycle and the cycle  *)
(* fell back, the session's source reference is the document URL located   *)
(* in this cycle; when the locator failed in this cycle, it is the landing *)
(* page URL.                                                               *)
C2_SourceReference ==
    cyc.phase = "FALLBACK" =>
        session_state[cyc.owner] =
            IF cyc.latest_pdf_url # None THEN cyc.latest_pdf_url ELSE page_url

(* C3: no acquisition entry point lets an error reach its caller: every    *)
(* cycle that ends returned a table, and no exception left the function.   *)
C3_NoUnhandledError ==
    /\ cyc.exc = "none"
    /\ Ended(cyc) => cyc.result # <<>>

(* C6: the refresh trigger empties the cached outputs of both flows at     *)
(* once, and no table stored before a refresh is served after it: a call   *)
(* that finds no entry runs its flow from the first step, while a call     *)
(* that finds an entry (no refresh since, lifetime not over) runs no step. *)
C6_NothingStale == \A f \in Funcs : invalidated[f] => ~cache[f].has

C6_Step ==
    /\ (\E f \in Funcs : invalidated'[f] /\ ~invalidated[f])
          => \A f \in Funcs : invalidated'[f] /\ ~cache'[f].has
    /\ \A s \in Sessions :
        (pc[s] = "tab1" /\ pc'[s] # "tab1") =>
            IF cache["bam"].has
            THEN cyc' = cyc /\ cache' = cache /\ pc'[s] = "tab2"
            ELSE cyc' = [NoCycle EXCEPT !.owner = s, !.phase = "LOCATING"]
    /\ \A s \in Sessions :
        (pc[s] = "tab2" /\ pc'[s] # "tab2") =>
            IF cache["apps"].has
            THEN agg' = agg /\ cache' = cache /\ pc'[s] = "idle"
            ELSE /\ agg'.owner = s
                 /\ agg'.fetched_android = <<>>
                 /\ agg'.fetched_ios = <<>>

C6_RefreshRecomputes == []C6_NothingStale /\ [][C6_Step]_vars

\* after a refresh the report was acquired again; the app table is still due
C6_Witness ==
    /\ invalidated["apps"]
    /\ cache["bam"].has
    /\ \E s \in Sessions : cyc.owner = s /\ pc[s] = "tab2" /\ Ended(cyc)

(* C7, as claimed: an extraction error is reported if and only if the      *)
(* cycle falls back at the DOWNLOADING step, that is, having located a     *)
(* document and without the parser having run.                             *)
C7_ErrorIffDownloadFallback ==
    Ended(cyc) => (ErrorReported(cyc) <=> FellBackAtDownloading(cyc))

(* C7, amended: an extraction error is reported if and only if the         *)
(* extractor itself fails (the download or the decoding raises); the cycle *)
(* then falls back at the DOWNLOADING step, the error coming before the    *)
(* fallback.  No error is reported when the locator fails, when the        *)
(* extractor returns an empty text (the only other way to fall back at     *)
(* DOWNLOADING), or when the parser yields zero rows.                      *)
C7_ErrorIffExtractorRaised ==
    /\ ErrorReported(cyc) <=> cyc.extracted = "raised"
    /\ Ended(cyc) =>
        /\ ErrorReported(cyc) =>
              FellBackAtDownloading(cyc) /\ cyc.log = <<"locate", "download", "error">>
        /\ (FellBackAtDownloading(cyc) /\ ~ErrorReported(cyc)) => cyc.extracted = "empty"
        /\ LocatorFailed(cyc) => ~ErrorReported(cyc)
        /\ ParserZeroRows(cyc) => ~ErrorReported(cyc)

C7_Witness ==
    /\ FellBackAtDownloading(cyc)
    /\ ErrorReported(cyc)
    /\ cyc.result = fallback_df

\* the log without the calls of st.error
Steps(c) == SelectSeq(c.log, LAMBDA e : e # "error")

(* C8: every cycle runs locate, download and parse at most once each and   *)
(* in this order, downloads only after the locator returned a URL, parses  *)
(* only after the extractor returned text, and ends in SUCCESS, returning  *)
(* the parsed table, exactly when the parser yields at least one row, and  *)
(* otherwise in FALLBACK.                                                  *)
C8_StateMachine ==
    /\ Steps(cyc) = SubSeq(<<"locate", "download", "parse">>, 1, Len(Steps(cyc)))
    /\ InLog(cyc, "download") => cyc.latest_pdf_url # None
    /\ InLog(cyc, "parse") => cyc.extracted = "text"
    /\ Ended(cyc) =>
        /\ cyc.phase \in {"SUCCESS", "FALLBACK"}
        /\ cyc.phase = "SUCCESS" <=> (InLog(cyc, "parse") /\ cyc.nrows >= 1)
        /\ cyc.phase = "SUCCESS" => Len(cyc.result) = cyc.nrows

(* C10: whenever tab 1 shows the report table, in any session and after    *)
(* any acquisitions, cache hits and refreshes, the session has a source    *)
(* reference URL to show with it.                                          *)
C10_SourceWithTable ==
    \A s \in Sessions : screen[s].table = "shown" => screen[s].source # None

\* what parse_payment_data handed to its caller in the cycle c
ParsedRows(c) == IF c.phase = "SUCCESS" THEN c.result ELSE <<>>

PosMatched(text) ==
    re_search("pos_num", text) # NoMatch /\ re_search("pos_val", text) # NoMatch
MobileMatched(text) == re_search("mobile", text) # NoMatch

PosRows(rows) ==
    {i \in 1..Len(rows) :
        \/ rows[i]["Category"] = Lit("POS Payments")
        \/ i > 1 /\ rows[i - 1]["Category"] = Lit("POS Payments")}
MobileRows(rows) ==
    {i \in 1..Len(rows) :
        \/ rows[i]["Category"] = Lit("Mobile Payments (M-Wallet)")
        \/ i > 1 /\ rows[i - 1]["Category"] = Lit("Mobile Payments (M-Wallet)")}

(* C9: the two extraction rules of parse_payment_data are independent: the *)
(* POS rule emits its two rows exactly when its count phrase and its value *)
(* phrase both match, the mobile-wallet rule emits its two rows exactly    *)
(* when its phrase matches, whatever the POS rule did; the result has 0, 2 *)
(* or 4 rows, POS rows before mobile-wallet rows, and the two              *)
(* mobile-wallet rows carry the same growth percentage.                    *)
C9_RulesIndependent ==
    (Ended(cyc) /\ InLog(cyc, "parse")) =>
        LET rows == ParsedRows(cyc)
            text == cyc.report_text
        IN  /\ Cardinality(PosRows(rows)) = IF PosMatched(text) THEN 2 ELSE 0
            /\ Cardinality(MobileRows(rows)) = IF MobileMatched(text) THEN 2 ELSE 0
            /\ Len(rows) = Cardinality(PosRows(rows)) + Cardinality(MobileRows(rows))
            /\ \A i \in PosRows(rows), j \in MobileRows(rows) : i < j
            /\ \A i, j \in MobileRows(rows) :
                  rows[i]["Growth (2022-2023)"] = rows[j]["Growth (2022-2023)"]

\* rows of the output for the wallet w on the platform p
RowsOf(out, w, p) ==
    {i \in 1..Len(out) : out[i].Wallet = w /\ out[i].Platform = p}

Succeeded(fetched) == {i \in 1..Len(fetched) : fetched[i]}

IsPrefix(a, b) == Len(a) <= Len(b) /\ a = SubSeq(b, 1, Len(a))

(* C4: whatever the pattern of query successes and failures, the output of *)
(* get_app_store_data has exactly one row for each (wallet, platform)      *)
(* whose query succeeded and none, not even a placeholder, for one whose   *)
(* query failed; a row once collected is never removed or changed by a     *)
(* later query, and an empty registry on one platform leaves the other     *)
(* platform's rows as the output.                                          *)
C4_OnePerSuccess ==
    agg.phase = "done" =>
        /\ Len(agg.fetched_android) = Len(wallet_apps_android)
        /\ Len(agg.fetched_ios) = Len(wallet_apps_ios)
        /\ \A i \in 1..Len(wallet_apps_android) :
              Cardinality(RowsOf(agg.result, wallet_apps_android[i], "Android"))
                 = IF agg.fetched_android[i] THEN 1 ELSE 0
        /\ \A i \in 1..Len(wallet_apps_ios) :
              Cardinality(RowsOf(agg.result, wallet_apps_ios[i], "iOS"))
                 = IF agg.fetched_ios[i] THEN 1 ELSE 0
        /\ Len(agg.result) = Cardinality(Succeeded(agg.fetched_android))
                               + Cardinality(Succeeded(agg.fetched_ios))
        /\ wallet_apps_android = <<>> => agg.result = agg.data_ios
        /\ wallet_apps_ios = <<>> => agg.result = agg.data_android

C4_Step ==
    /\ IsPrefix(agg.data_android, agg'.data_android)
    /\ IsPrefix(agg.data_ios, agg'.data_ios)

C4_PerAppIsolation == []C4_OnePerSuccess /\ [][C4_Step]_vars

\* the first Android query failed, the second succeeded
C4_Witness ==
    /\ agg.phase = "done"
    /\ Len(agg.fetched_android) = 2
    /\ ~agg.fetched_android[1]
    /\ agg.fetched_android[2]
    /\ Len(agg.data_android) = 1

IndexIn(registry, w) == CHOOSE i \in 1..Len(registry) : registry[i] = w

RegistryOf(p) == IF p = "Android" THEN wallet_apps_android ELSE wallet_apps_ios

\* Android rows first, and within a platform the registry's order
Ordered(out) ==
    \A j, k \in 1..Len(out) :
        j < k =>
            /\ out[j].Platform = "iOS" => out[k].Platform = "iOS"
            /\ out[j].Platform = out[k].Platform =>
                  IndexIn(RegistryOf(out[j].Platform), out[j].Wallet)
                     < IndexIn(RegistryOf(out[k].Platform), out[k].Wallet)

Names(registry) == {registry[i] : i \in 1..Len(registry)}

InBoth == Names(wallet_apps_android) \cap Names(wallet_apps_ios)

RowsFor(out, w) == {i \in 1..Len(out) : out[i].Wallet = w}

(* C5, as claimed: the output lists the Android rows first, in registry    *)
(* order, then the iOS rows, in registry order, and a wallet present in    *)
(* both registries has exactly two rows, one Android and one iOS.          *)
C5_AlwaysTwoRows ==
    agg.phase = "done" =>
        /\ Ordered(agg.result)
        /\ \A w \in InBoth :
              /\ Cardinality(RowsFor(agg.result, w)) = 2
              /\ Cardinality(RowsOf(agg.result, w, "Android")) = 1
              /\ Cardinality(RowsOf(agg.result, w, "iOS")) = 1

(* C5, amended: the output lists the Android rows first, in registry       *)
(* order, then the iOS rows, in registry order; rows are never merged by   *)
(* wallet name: a wallet present in both registries has one row for each   *)
(* platform on which its query succeeded, hence exactly two rows (one      *)
(* Android, one iOS) when both queries succeeded, and never one row        *)
(* standing for both platforms.                                            *)
C5_OrderedNoMerge ==
    agg.phase = "done" =>
        /\ Ordered(agg.result)
        /\ \A w \in InBoth :
            LET a == agg.fetched_android[IndexIn(wallet_apps_android, w)]
                o == agg.fetched_ios[IndexIn(wallet_apps_ios, w)]
            IN  /\ Cardinality(RowsFor(agg.result, w))
                      = (IF a THEN 1 ELSE 0) + (IF o THEN 1 ELSE 0)
                /\ (a /\ o) =>
                      /\ Cardinality(RowsOf(agg.result, w, "Android")) = 1
                      /\ Cardinality(RowsOf(agg.result, w, "iOS")) = 1
                      /\ \A i \in RowsOf(agg.result, w, "Android"),
                            j \in RowsOf(agg.result, w, "iOS") : i < j

\* two wallets in both registries, in different orders, all four queries fine
C5_Witness ==
    /\ agg.phase = "done"
    /\ Cardinality(InBoth) = 2
    /\ wallet_apps_android # wallet_apps_ios
    /\ Len(agg.result) = 4

=============================================================================
